---------------------------- MODULE Spec2Model ----------------------------
(***************************************************************************)
(* A model of the bughouse rules overlay: Holdings (holdings.rs),          *)
(* Promotions (promotions.rs), BughouseMove (bughouse_move.rs),            *)
(* BughouseBoard (bughouse_board.rs) and BughouseGame (bughouse_game.rs).  *)
(*                                                                         *)
(* The chess rules themselves come from the `chess` crate.  The operators  *)
(* of the section "chess crate" model the calls the overlay makes into it  *)
(* (piece_on, checkers, between, legal, make_move_new, status, king_square *)
(* and Board::try_from) on the full 8x8 board.  Castling is left out: all  *)
(* positions considered carry no castling rights (FEN field "-"), and the  *)
(* crate never gives rights back.                                          *)
(***************************************************************************)
EXTENDS Integers, FiniteSets, Sequences, TLC

(***************************************************************************)
(* Values                                                                  *)
(***************************************************************************)
White == "White"
Black == "Black"
Colors == {White, Black}

Pawn == "Pawn"
Knight == "Knight"
Bishop == "Bishop"
Rook == "Rook"
Queen == "Queen"
King == "King"
Pieces == {Pawn, Knight, Bishop, Rook, Queen, King}

\* holdings.rs: the five piece types a HeldArray row has a slot for.
HeldPieces == {Pawn, Knight, Bishop, Rook, Queen}

\* The absent value of an Option<Piece> or of a result not there yet.
None == "None"

\* The board is 8 files by 8 ranks; a square is <<file, rank>>.
BoardSize == 8
Squares == (1..BoardSize) \X (1..BoardSize)

\* The absent value of an Option<Square>.
NoSquare == <<0, 0>>

FileOf(sq) == sq[1]
RankOf(sq) == sq[2]

\* !color
Opp(color) == IF color = White THEN Black ELSE White

BoardIDs == {"A", "B"}

\* boards[1 - name.to_index()]
OtherBoard(name) == IF name = "A" THEN "B" ELSE "A"

Abs(x) == IF x < 0 THEN -x ELSE x
Sgn(x) == IF x < 0 THEN -1 ELSE IF x > 0 THEN 1 ELSE 0
Max(x, y) == IF x < y THEN y ELSE x

(***************************************************************************)
(* chess crate: the position of one board is                               *)
(*   pos : occupied squares -> [piece, color]                              *)
(*   stm : side to move                                                    *)
(*   ep  : the square of a pawn that just made a double step and can be    *)
(*         taken en passant, or NoSquare                                      *)
(***************************************************************************)

\* chess::Board::piece_on / color_on: the content of a square, or None.
PieceOn(pos, sq) == IF sq \in DOMAIN pos THEN pos[sq].piece ELSE None
ColorOn(pos, sq) == IF sq \in DOMAIN pos THEN pos[sq].color ELSE None

\* chess::between: the squares strictly between two squares on one rank,
\* file or diagonal; empty for squares not on a common line.
Between(a, b) ==
    LET df == FileOf(b) - FileOf(a)
        dr == RankOf(b) - RankOf(a)
        n  == Max(Abs(df), Abs(dr))
    IN  IF a # b /\ (df = 0 \/ dr = 0 \/ Abs(df) = Abs(dr))
        THEN { <<FileOf(a) + k * Sgn(df), RankOf(a) + k * Sgn(dr)>> : k \in 1..(n - 1) }
        ELSE {}

\* The direction pawns of a color move in, and the ranks that matter to them.
Forward(color) == IF color = White THEN 1 ELSE -1
StartRank(color) == IF color = White THEN 2 ELSE BoardSize - 1
LastRank(color) == IF color = White THEN BoardSize ELSE 1

\* Whether the piece on `from` attacks square `to` in `pos`.
Attacks(pos, from, to) ==
    LET p  == pos[from].piece
        df == FileOf(to) - FileOf(from)
        dr == RankOf(to) - RankOf(from)
        clear == Between(from, to) \cap DOMAIN pos = {}
    IN  /\ from # to
        /\ CASE p = Pawn   -> Abs(df) = 1 /\ dr = Forward(pos[from].color)
             [] p = Knight -> {Abs(df), Abs(dr)} = {1, 2}
             [] p = King   -> Abs(df) <= 1 /\ Abs(dr) <= 1
             [] p = Bishop -> Abs(df) = Abs(dr) /\ clear
             [] p = Rook   -> (df = 0 \/ dr = 0) /\ clear
             [] p = Queen  -> (df = 0 \/ dr = 0 \/ Abs(df) = Abs(dr)) /\ clear

\* chess::Board::king_square(color)
KingSquare(pos, color) ==
    CHOOSE sq \in DOMAIN pos : pos[sq].piece = King /\ pos[sq].color = color

\* The pieces of the other color that attack the king of `color`.
Attackers(pos, color) ==
    LET k == KingSquare(pos, color)
    IN  { sq \in DOMAIN pos : pos[sq].color # color /\ Attacks(pos, sq, k) }

\* chess::Board::checkers: the pieces giving check to the side to move.
Checkers(b) == Attackers(b.pos, b.stm)

\* BitBoard::to_square: the lowest set bit, squares numbered a1, b1, ..., h8.
SquareIndex(sq) == (RankOf(sq) - 1) * BoardSize + (FileOf(sq) - 1)
ToSquare(bb) == CHOOSE sq \in bb : \A o \in bb : SquareIndex(sq) <= SquareIndex(o)


\* A ChessMove / BughouseMove: source (NoSquare for a drop), dest, and the
\* promotion or drop piece (bughouse_move.rs, BughouseMove::new).
Mv(source, dest, piece) == [source |-> source, dest |-> dest, piece |-> piece]

\* The squares holding a piece of `color`.
Occupied(pos, color) == { sq \in DOMAIN pos : pos[sq].color = color }

\* The square an en-passant capture of the pawn on `epSq` lands on.
EpTarget(cb) == <<FileOf(cb.ep), RankOf(cb.ep) + Forward(cb.stm)>>

\* Whether the pawn of the side to move on `src` may go to `dst`.
PawnMoveOk(cb, src, dst) ==
    LET c  == cb.stm
        df == FileOf(dst) - FileOf(src)
        dr == RankOf(dst) - RankOf(src)
    IN  \/ df = 0 /\ dr = Forward(c) /\ dst \notin DOMAIN cb.pos
        \/ /\ df = 0 /\ dr = 2 * Forward(c) /\ RankOf(src) = StartRank(c)
           /\ dst \notin DOMAIN cb.pos
           /\ <<FileOf(src), RankOf(src) + Forward(c)>> \notin DOMAIN cb.pos
        \/ /\ Abs(df) = 1 /\ dr = Forward(c)
           /\ \/ ColorOn(cb.pos, dst) = Opp(c)
              \/ cb.ep # NoSquare /\ dst = EpTarget(cb)

\* chess::Board::make_move_new: the position after a (legal) move.
MakeMoveNew(cb, mv) ==
    LET c      == cb.stm
        src    == mv.source
        dst    == mv.dest
        moved  == cb.pos[src].piece
        placed == IF mv.piece # None THEN mv.piece ELSE moved
        isEp   == moved = Pawn /\ FileOf(src) # FileOf(dst) /\ dst \notin DOMAIN cb.pos
        gone   == {src} \cup (IF isEp THEN {cb.ep} ELSE {})
        newpos == [ s \in ((DOMAIN cb.pos \ gone) \cup {dst}) |->
                      IF s = dst THEN [piece |-> placed, color |-> c] ELSE cb.pos[s] ]
        double == moved = Pawn /\ Abs(RankOf(dst) - RankOf(src)) = 2
        taker  == \E s \in DOMAIN newpos :
                     /\ newpos[s] = [piece |-> Pawn, color |-> Opp(c)]
                     /\ RankOf(s) = RankOf(dst)
                     /\ Abs(FileOf(s) - FileOf(dst)) = 1
    IN  [pos |-> newpos, stm |-> Opp(c), ep |-> IF double /\ taker THEN dst ELSE NoSquare]

\* chess::Board::legal: the move is one the move generator produces.
Legal(cb, mv) ==
    LET c   == cb.stm
        src == mv.source
        dst == mv.dest
    IN  /\ src \in Squares /\ dst \in Squares /\ src # dst
        /\ ColorOn(cb.pos, src) = c
        /\ ColorOn(cb.pos, dst) # c
        /\ IF cb.pos[src].piece = Pawn
           THEN /\ PawnMoveOk(cb, src, dst)
                /\ IF RankOf(dst) = LastRank(c)
                   THEN mv.piece \in {Knight, Bishop, Rook, Queen}
                   ELSE mv.piece = None
           ELSE mv.piece = None /\ Attacks(cb.pos, src, dst)
        /\ Attackers(MakeMoveNew(cb, mv).pos, c) = {}

\* chess::Board::status
Status(cb) ==
    IF \E src \in Occupied(cb.pos, cb.stm) : \E dst \in Squares : \E p \in {None, Queen} :
           Legal(cb, Mv(src, dst, p))
    THEN "Ongoing"
    ELSE IF Checkers(cb) = {} THEN "Stalemate" ELSE "Checkmate"

\* chess::Board::is_sane, as Board::try_from(BoardBuilder) asks it: one king
\* of each color, the side that just moved not in check, the kings apart,
\* and an en-passant square holding a pawn of the side that just moved.
IsSane(cb) ==
    /\ \A c \in Colors :
          Cardinality({ sq \in DOMAIN cb.pos : cb.pos[sq] = [piece |-> King, color |-> c] }) = 1
    /\ Attackers(cb.pos, Opp(cb.stm)) = {}
    /\ LET wk == KingSquare(cb.pos, White)
           bk == KingSquare(cb.pos, Black)
       IN  Abs(FileOf(wk) - FileOf(bk)) > 1 \/ Abs(RankOf(wk) - RankOf(bk)) > 1
    /\ cb.ep # NoSquare => cb.pos[cb.ep] = [piece |-> Pawn, color |-> Opp(cb.stm)]

(***************************************************************************)
(* holdings.rs: Holdings, a count per color and held piece type (u8).      *)
(***************************************************************************)
U8Mod == 256

\* Holdings::default
EmptyHoldings == [c \in Colors |-> [p \in HeldPieces |-> 0]]

\* Holdings::has_piece (defined for the five held piece types; indexing the
\* row by King is out of its bounds).
HasPiece(h, color, piece) == h[color][piece] > 0

\* drop without the test that the piece is held.
HoldingsDrop_Unchecked(h, color, piece) ==
    LET cur_val == h[color][piece]
    IN  [res |-> "Ok", holdings |-> [h EXCEPT ![color][piece] = (cur_val - 1) % U8Mod]]

\* Holdings::drop: the new holdings, or the error UnheldDrop.
HoldingsDrop(h, color, piece) ==
    LET cur_val == h[color][piece]
    IN  IF cur_val > 0
        THEN [res |-> "Ok", holdings |-> [h EXCEPT ![color][piece] = cur_val - 1]]
        ELSE [res |-> "UnheldDrop", holdings |-> h]

\* Whether the += 1 of Holdings::add overflows its u8: a build with overflow
\* checks panics there, a build without them wraps to 0.
AddOverflows(h, color, piece) == h[color][piece] + 1 >= U8Mod

\* Holdings::add: += 1 on a u8 (wrapping, as a release build does).
HoldingsAdd(h, color, piece) ==
    [h EXCEPT ![color][piece] = (h[color][piece] + 1) % U8Mod]

(***************************************************************************)
(* promotions.rs: Promotions, per color the squares holding a piece that   *)
(* was promoted from a pawn.                                               *)
(***************************************************************************)
\* Promotions::default
EmptyPromos == [c \in Colors |-> {}]

\* Promotions::is_promo
IsPromo(promos, color, sq) == sq \in promos[color]

\* Promotions::add_square
AddSquare(promos, color, sq) == [promos EXCEPT ![color] = @ \cup {sq}]

\* Promotions::clear_square
ClearSquare(promos, color, sq) == [promos EXCEPT ![color] = @ \ {sq}]

\* record_move with the slip of not re-marking a moved promoted piece.
RecordMove_MarkStaysBehind(promos, mover, mv) ==
    IF mv.piece # None
    THEN AddSquare(promos, mover, mv.dest)
    ELSE ClearSquare(ClearSquare(promos, mover, mv.source), Opp(mover), mv.dest)

\* record_move that marks the destination of a moved promoted piece and
\* forgets to take the mark off its source.
RecordMove_KeepsSourceMark(promos, mover, mv) ==
    IF mv.piece # None
    THEN AddSquare(promos, mover, mv.dest)
    ELSE LET moved == IF IsPromo(promos, mover, mv.source)
                      THEN AddSquare(promos, mover, mv.dest)
                      ELSE promos
         IN  ClearSquare(moved, Opp(mover), mv.dest)

\* Promotions::record_move: a promotion marks dest and returns; otherwise
\* the mover's mark follows the piece, and the opponent's mark on dest is
\* cleared.
RecordMove(promos, mover, mv) ==
    IF mv.piece # None
    THEN AddSquare(promos, mover, mv.dest)
    ELSE LET moved == IF IsPromo(promos, mover, mv.source)
                      THEN AddSquare(ClearSquare(promos, mover, mv.source), mover, mv.dest)
                      ELSE promos
         IN  ClearSquare(moved, Opp(mover), mv.dest)

(***************************************************************************)
(* bughouse_board.rs: BughouseBoard = [board, holdings, promos].           *)
(***************************************************************************)
\* BAD_PAWN_RANKS: the first and the eighth rank.
BadPawnRanks == { sq \in Squares : RankOf(sq) \in {1, BoardSize} }

\* BughouseBoard::in_check
InCheck(bb) == Checkers(bb.board) # {}

\* BughouseBoard::king_square
BoardKingSquare(bb) == KingSquare(bb.board.pos, bb.board.stm)

\* is_mated without the test for more than one checker.
IsMated_OneCheckerOnly(bb) ==
    LET checkers == Checkers(bb.board)
    IN  IF Status(bb.board) # "Checkmate"
        THEN FALSE
        ELSE LET sq == ToSquare(checkers)
             IN  \/ PieceOn(bb.board.pos, sq) = Knight
                 \/ Between(sq, BoardKingSquare(bb)) = {}

\* is_mated that also calls a checkmate final when the side to move holds
\* no piece to drop.
IsMated_UnlessHolding(bb) ==
    LET checkers == Checkers(bb.board)
    IN  IF Status(bb.board) # "Checkmate"
        THEN FALSE
        ELSE LET sq == ToSquare(checkers)
             IN  \/ Cardinality(checkers) > 1
                 \/ PieceOn(bb.board.pos, sq) = Knight
                 \/ Between(sq, BoardKingSquare(bb)) = {}
                 \/ \A p \in HeldPieces : ~HasPiece(bb.holdings, bb.board.stm, p)

\* is_mated that calls every checkmate final.
IsMated_AnyCheckmate(bb) == Status(bb.board) = "Checkmate"

\* BughouseBoard::is_mated
IsMated(bb) ==
    LET checkers == Checkers(bb.board)
    IN  IF Status(bb.board) # "Checkmate"
        THEN FALSE
        ELSE LET sq == ToSquare(checkers)
             IN  \/ Cardinality(checkers) > 1
                 \/ PieceOn(bb.board.pos, sq) = Knight
                 \/ Between(sq, BoardKingSquare(bb)) = {}

\* blocks_check that only gives up when there is no checker at all.
BlocksCheck_AnyCheckerCount(bb, drop_sq) ==
    LET checkers == Checkers(bb.board)
    IN  IF Cardinality(checkers) = 0
        THEN FALSE
        ELSE LET checker_sq == ToSquare(checkers)
             IN  /\ PieceOn(bb.board.pos, checker_sq) # Knight
                 /\ Between(checker_sq, BoardKingSquare(bb)) \cap {drop_sq} # {}

\* BughouseBoard::blocks_check, for the one-square bitboard of drop_sq.
BlocksCheck(bb, drop_sq) ==
    LET checkers == Checkers(bb.board)
    IN  IF Cardinality(checkers) # 1
        THEN FALSE
        ELSE LET checker_sq == ToSquare(checkers)
             IN  /\ PieceOn(bb.board.pos, checker_sq) # Knight
                 /\ Between(checker_sq, BoardKingSquare(bb)) \cap {drop_sq} # {}

\* Whether is_legal faults instead of answering: a drop of a King indexes
\* the holdings row out of bounds in Holdings::has_piece.
IsLegalFaults(mv) == mv.source = NoSquare /\ mv.piece = King

\* is_legal without the rule keeping dropped pawns off the first and last
\* rank.
IsLegal_PawnsAnywhere(bb, mv) ==
    IF mv.source = NoSquare
    THEN IF mv.piece = None
         THEN FALSE
         ELSE /\ HasPiece(bb.holdings, bb.board.stm, mv.piece)
              /\ PieceOn(bb.board.pos, mv.dest) = None
              /\ (~InCheck(bb) \/ BlocksCheck(bb, mv.dest))
    ELSE Legal(bb.board, mv)

\* is_legal without the test that the destination of a drop is empty.
IsLegal_OntoPieces(bb, mv) ==
    IF mv.source = NoSquare
    THEN IF mv.piece = None
         THEN FALSE
         ELSE /\ HasPiece(bb.holdings, bb.board.stm, mv.piece)
              /\ (mv.piece # Pawn \/ {mv.dest} \cap BadPawnRanks = {})
              /\ (~InCheck(bb) \/ BlocksCheck(bb, mv.dest))
    ELSE Legal(bb.board, mv)

\* BughouseBoard::is_legal (for a move it does not fault on).
IsLegal(bb, mv) ==
    IF mv.source = NoSquare
    THEN IF mv.piece = None
         THEN FALSE
         ELSE /\ HasPiece(bb.holdings, bb.board.stm, mv.piece)
              /\ PieceOn(bb.board.pos, mv.dest) = None
              /\ (mv.piece # Pawn \/ {mv.dest} \cap BadPawnRanks = {})
              /\ (~InCheck(bb) \/ BlocksCheck(bb, mv.dest))
    ELSE Legal(bb.board, mv)

\* make_move that records the move in the promotion marks before it knows
\* the move is legal.
BoardMakeMove_RecordsFirst(bb, mv) ==
    LET recorded == IF mv.source = NoSquare THEN bb
                    ELSE [bb EXCEPT !.promos = RecordMove(bb.promos, bb.board.stm, mv)]
    IN  IF ~IsLegal(bb, mv)
        THEN [res |-> "IllegalMove", bb |-> recorded]
        ELSE IF mv.source = NoSquare
             THEN LET color == bb.board.stm
                      built == [pos |-> [ s \in DOMAIN bb.board.pos \cup {mv.dest} |->
                                            IF s = mv.dest
                                            THEN [piece |-> mv.piece, color |-> color]
                                            ELSE bb.board.pos[s] ],
                                stm |-> Opp(color),
                                ep  |-> NoSquare]
                  IN  [res |-> "Ok",
                       bb  |-> [bb EXCEPT
                                  !.holdings = HoldingsDrop(bb.holdings, color, mv.piece).holdings,
                                  !.board = built]]
             ELSE [res |-> "Ok",
                   bb  |-> [recorded EXCEPT !.board = MakeMoveNew(bb.board, mv)]]

\* make_move whose drop leaves the dropped piece in the holdings.
BoardMakeMove_DropKeepsPiece(bb, mv) ==
    IF IsLegal(bb, mv)
    THEN IF mv.source = NoSquare
         THEN LET color == bb.board.stm
                  built == [pos |-> [ s \in DOMAIN bb.board.pos \cup {mv.dest} |->
                                        IF s = mv.dest
                                        THEN [piece |-> mv.piece, color |-> color]
                                        ELSE bb.board.pos[s] ],
                            stm |-> Opp(color),
                            ep  |-> NoSquare]
              IN  IF IsSane(built)
                  THEN [res |-> "Ok", bb |-> [bb EXCEPT !.board = built]]
                  ELSE [res |-> "IllegalMove", bb |-> bb]
         ELSE [res |-> "Ok",
               bb  |-> [bb EXCEPT !.promos = RecordMove(bb.promos, bb.board.stm, mv),
                                  !.board = MakeMoveNew(bb.board, mv)]]
    ELSE [res |-> "IllegalMove", bb |-> bb]

\* make_move whose drop leaves the turn with the side that dropped.
BoardMakeMove_DropKeepsTurn(bb, mv) ==
    IF IsLegal(bb, mv)
    THEN IF mv.source = NoSquare
         THEN LET color == bb.board.stm
                  built == [pos |-> [ s \in DOMAIN bb.board.pos \cup {mv.dest} |->
                                        IF s = mv.dest
                                        THEN [piece |-> mv.piece, color |-> color]
                                        ELSE bb.board.pos[s] ],
                            stm |-> color,
                            ep  |-> NoSquare]
                  dropped == HoldingsDrop(bb.holdings, color, mv.piece)
              IN  IF dropped.res = "Ok"
                  THEN [res |-> "Ok",
                        bb  |-> [bb EXCEPT !.holdings = dropped.holdings, !.board = built]]
                  ELSE [res |-> dropped.res, bb |-> bb]
         ELSE [res |-> "Ok",
               bb  |-> [bb EXCEPT !.promos = RecordMove(bb.promos, bb.board.stm, mv),
                                  !.board = MakeMoveNew(bb.board, mv)]]
    ELSE [res |-> "IllegalMove", bb |-> bb]

\* BughouseBoard::make_move: the result and the board after the call.
BoardMakeMove(bb, mv) ==
    IF IsLegal(bb, mv)
    THEN IF mv.source = NoSquare
         THEN LET piece == mv.piece
                  color == bb.board.stm
                  built == [pos |-> [ s \in DOMAIN bb.board.pos \cup {mv.dest} |->
                                        IF s = mv.dest THEN [piece |-> piece, color |-> color]
                                        ELSE bb.board.pos[s] ],
                            stm |-> Opp(color),
                            ep  |-> NoSquare]
              IN  IF IsSane(built)
                  THEN LET dropped == HoldingsDrop(bb.holdings, color, piece)
                       IN  IF dropped.res = "Ok"
                           THEN [res |-> "Ok",
                                 bb  |-> [bb EXCEPT !.holdings = dropped.holdings,
                                                    !.board = built]]
                           ELSE [res |-> dropped.res, bb |-> bb]
                  ELSE [res |-> "IllegalMove", bb |-> bb]
         ELSE [res |-> "Ok",
               bb  |-> [bb EXCEPT !.promos = RecordMove(bb.promos, bb.board.stm, mv),
                                  !.board = MakeMoveNew(bb.board, mv)]]
    ELSE [res |-> "IllegalMove", bb |-> bb]

(***************************************************************************)
(* bughouse_game.rs: BughouseGame, two boards.                             *)
(***************************************************************************)
\* The piece handed over for a captured one: a promoted piece goes back as
\* a pawn.
HandedPiece(is_promo, piece) == IF is_promo THEN Pawn ELSE piece

\* make_move that hands the captured piece over under the mover's color.
GameMakeMoveNew_MoverColor(bs, name, mv) ==
    LET bug_board      == bs[name]
        captured_piece == PieceOn(bug_board.board.pos, mv.dest)
        mover          == bug_board.board.stm
        is_promo       == IsPromo(bug_board.promos, Opp(mover), mv.dest)
        made           == BoardMakeMove(bug_board, mv)
        moved          == [bs EXCEPT ![name] = made.bb]
    IN  IF made.res # "Ok"
        THEN [res |-> made.res, boards |-> bs]
        ELSE IF captured_piece # None
             THEN [res    |-> "Ok",
                   boards |-> [moved EXCEPT ![OtherBoard(name)].holdings =
                                 HoldingsAdd(@, mover, HandedPiece(is_promo, captured_piece))]]
             ELSE [res |-> "Ok", boards |-> moved]

\* make_move that hands the piece on the destination over before it knows
\* whether the move succeeds.
GameMakeMoveNew_HandsOverFirst(bs, name, mv) ==
    LET bug_board      == bs[name]
        captured_piece == PieceOn(bug_board.board.pos, mv.dest)
        opp            == Opp(bug_board.board.stm)
        is_promo       == IsPromo(bug_board.promos, opp, mv.dest)
        made           == BoardMakeMove(bug_board, mv)
        handed         == IF captured_piece # None
                          THEN [bs EXCEPT ![OtherBoard(name)].holdings =
                                  HoldingsAdd(@, opp, HandedPiece(is_promo, captured_piece))]
                          ELSE bs
    IN  IF made.res # "Ok"
        THEN [res |-> made.res, boards |-> handed]
        ELSE [res |-> "Ok", boards |-> [handed EXCEPT ![name] = made.bb]]

\* make_move that puts the captured piece into the holdings of the board
\* the capture was made on.
GameMakeMoveNew_SameBoard(bs, name, mv) ==
    LET bug_board      == bs[name]
        captured_piece == PieceOn(bug_board.board.pos, mv.dest)
        opp            == Opp(bug_board.board.stm)
        is_promo       == IsPromo(bug_board.promos, opp, mv.dest)
        made           == BoardMakeMove(bug_board, mv)
        moved          == [bs EXCEPT ![name] = made.bb]
    IN  IF made.res # "Ok"
        THEN [res |-> made.res, boards |-> bs]
        ELSE IF captured_piece # None
             THEN [res    |-> "Ok",
                   boards |-> [moved EXCEPT ![name].holdings =
                                 HoldingsAdd(@, opp, HandedPiece(is_promo, captured_piece))]]
             ELSE [res |-> "Ok", boards |-> moved]

\* make_move that looks for the captured piece on the destination square of
\* the other board instead of the board the move is made on.
GameMakeMoveNew_ReadsOtherBoard(bs, name, mv) ==
    LET bug_board      == bs[name]
        captured_piece == PieceOn(bs[OtherBoard(name)].board.pos, mv.dest)
        opp            == Opp(bug_board.board.stm)
        is_promo       == IsPromo(bug_board.promos, opp, mv.dest)
        made           == BoardMakeMove(bug_board, mv)
        moved          == [bs EXCEPT ![name] = made.bb]
    IN  IF made.res # "Ok"
        THEN [res |-> made.res, boards |-> bs]
        ELSE IF captured_piece # None
             THEN [res    |-> "Ok",
                   boards |-> [moved EXCEPT ![OtherBoard(name)].holdings =
                                 HoldingsAdd(@, opp, HandedPiece(is_promo, captured_piece))]]
             ELSE [res |-> "Ok", boards |-> moved]

\* BughouseGame::make_move on the boards `bs`: the result and the boards
\* after the call (for a move is_legal does not fault on).
GameMakeMoveNew(bs, name, mv) ==
    LET bug_board      == bs[name]
        chess_board    == bug_board.board
        dest           == mv.dest
        captured_piece == PieceOn(chess_board.pos, dest)
        opp            == Opp(chess_board.stm)
        is_promo       == IsPromo(bug_board.promos, opp, dest)
        made           == BoardMakeMove(bug_board, mv)
        moved          == [bs EXCEPT ![name] = made.bb]
    IN  IF made.res # "Ok"
        THEN [res |-> made.res, boards |-> bs]
        ELSE IF captured_piece # None
             THEN [res    |-> "Ok",
                   boards |-> [moved EXCEPT ![OtherBoard(name)].holdings =
                                 HoldingsAdd(@, opp, HandedPiece(is_promo, captured_piece))]]
             ELSE [res |-> "Ok", boards |-> moved]

(***************************************************************************)
(* State                                                                   *)
(*   boards  : the two BughouseBoards of the game                          *)
(*   result  : what the last call returned ("Ok", an error, or "Panic"     *)
(*             for a call that faulted), "None" before the first call      *)
(*   last    : the last successful make_move: its board and move, and the  *)
(*             captured_piece and is_promo it read before applying it      *)
(*   derived : history variable; per board, the squares whose piece really *)
(*             descends from a promoted pawn (what Promotions is meant to  *)
(*             track)                                                      *)
(*   answer  : the last query made of a board and what it returned         *)
(*   plies   : the number of successful make_move calls so far             *)
(***************************************************************************)
VARIABLES boards, result, last, derived, answer, plies

vars == <<boards, result, last, derived, answer, plies>>

\* Games are followed for this many moves.
MaxPlies == 7

\* The promotion-derived squares of a board after a successful move on it.
DerivedAfter(d, cb, mv) ==
    IF mv.source = NoSquare
    THEN d
    ELSE LET rest == d \ {mv.source, mv.dest}
         IN  IF mv.piece # None \/ mv.source \in d THEN rest \cup {mv.dest} ELSE rest

(***************************************************************************)
(* Positions the games start from (BughouseGame::from_str of a position    *)
(* text), and the moves callers pass in.                                   *)
(***************************************************************************)
a3 == <<1, 3>>
a5 == <<1, 5>>
f6 == <<6, 6>>
g1 == <<7, 1>>
g2 == <<7, 2>>
g8 == <<7, 8>>
h6 == <<8, 6>>
h7 == <<8, 7>>
h8 == <<8, 8>>

Pc(piece, color) == [piece |-> piece, color |-> color]

\* A position from a set of <<square, piece, color>> placements.
Position(placed) ==
    [ sq \in { t[1] : t \in placed } |->
        LET t == CHOOSE t \in placed : t[1] = sq IN Pc(t[2], t[3]) ]

\* BughouseBoard::new
NewBoard(pos, stm, holdings, promos) ==
    [board |-> [pos |-> pos, stm |-> stm, ep |-> NoSquare],
     holdings |-> holdings, promos |-> promos]

\* Board A: "7r/8/5N1P/k7/8/K7/6p1/8/ b - -": a black pawn about to promote,
\* a white pawn two steps from promoting, a black rook and a white knight.
StartA ==
    NewBoard(Position({ <<a3, King, White>>, <<a5, King, Black>>,
                        <<g2, Pawn, Black>>, <<h6, Pawn, White>>,
                        <<h8, Rook, Black>>, <<f6, Knight, White>> }),
             Black, EmptyHoldings, EmptyPromos)

\* Board B: "6r1/8/8/k7/8/8/8/6K1/ w - -": White, to move, is in check
\* from the rook down the g file.
StartB ==
    NewBoard(Position({ <<g1, King, White>>, <<a5, King, Black>>,
                        <<g8, Rook, Black>> }),
             White, EmptyHoldings, EmptyPromos)

InputSquares == {f6, g1, g2, g8, h6, h7, h8}
PromoInputs == {None, Queen}
DropInputs == {Pawn, Knight, Rook, King, None}

\* The moves passed to make_move: standard moves and promotions between the
\* input squares, and drops (a King drop and a drop of no piece included).
MoveInputs ==
    { Mv(s, d, p) : s \in InputSquares, d \in InputSquares, p \in PromoInputs }
    \cup { Mv(NoSquare, d, p) : d \in InputSquares, p \in DropInputs }

Init ==
    /\ boards = [n \in BoardIDs |-> IF n = "A" THEN StartA ELSE StartB]
    /\ result = None
    /\ last = [name |-> None, mv |-> Mv(NoSquare, NoSquare, None),
               captured_piece |-> None, is_promo |-> FALSE]
    /\ derived = [n \in BoardIDs |-> {}]
    /\ answer = [op |-> None, name |-> None, mv |-> Mv(NoSquare, NoSquare, None),
                 value |-> FALSE]
    /\ plies = 0

\* game.make_move(name, mv)
MakeMove(name, mv) ==
    /\ plies < MaxPlies
    /\ IF IsLegalFaults(mv)
       THEN /\ result' = "Panic"
            /\ UNCHANGED <<boards, last, derived, plies>>
       ELSE LET made == GameMakeMoveNew(boards, name, mv)
            IN  /\ result' = made.res
                /\ boards' = made.boards
                /\ IF made.res = "Ok"
                   THEN /\ last' = [name |-> name, mv |-> mv,
                                    captured_piece |-> PieceOn(boards[name].board.pos, mv.dest),
                                    is_promo |-> IsPromo(boards[name].promos,
                                                         Opp(boards[name].board.stm), mv.dest)]
                        /\ derived' = [derived EXCEPT
                                         ![name] = DerivedAfter(@, boards[name].board, mv)]
                        /\ plies' = plies + 1
                   ELSE UNCHANGED <<last, derived, plies>>
    /\ UNCHANGED answer

Next == \E name \in BoardIDs, mv \in MoveInputs : MakeMove(name, mv)

Spec == Init /\ [][Next]_vars

(***************************************************************************)
(* Queries.  is_legal and is_mated are put to boards read from position    *)
(* texts (BughouseBoard::from_str): the white king, to move, near the a1   *)
(* corner, up to MaxAttackers black pieces around it, the black king far   *)
(* away on h8, and White's holdings empty or not.                          *)
(***************************************************************************)
MaxAttackers == 2

QuerySquares == (1..3) \X (1..3)
QueryKingSquares == { <<1, 1>>, <<2, 1>>, <<3, 1>> }
AttackerTypes == {Queen, Rook, Bishop, Knight}
QueryHoldings ==
    { EmptyHoldings,
      [EmptyHoldings EXCEPT ![White][Knight] = 1, ![White][Pawn] = 1] }

\* The sets of at most n black pieces on distinct squares of `free`.
RECURSIVE AttackerSets(_, _)
AttackerSets(n, free) ==
    IF n = 0
    THEN {{}}
    ELSE LET fewer == AttackerSets(n - 1, free)
         IN  fewer \cup
             { S \cup {<<sq, t, Black>>} :
                 S \in fewer, sq \in free, t \in AttackerTypes }

QueryBoards ==
    { bb \in { NewBoard(Position({<<wk, King, White>>, <<h8, King, Black>>} \cup att),
                        White, h, EmptyPromos) :
                 wk \in QueryKingSquares,
                 att \in AttackerSets(MaxAttackers, QuerySquares),
                 h \in QueryHoldings } :
        /\ Cardinality(DOMAIN bb.board.pos) <= MaxAttackers + 2
        /\ IsSane(bb.board) }

\* The drops asked about.
QueryMoves == { Mv(NoSquare, d, p) : d \in QuerySquares, p \in {Pawn, Knight, Queen} }

InitQuery ==
    /\ boards \in { [n \in BoardIDs |-> IF n = "A" THEN bb ELSE StartB] : bb \in QueryBoards }
    /\ result = None
    /\ last = [name |-> None, mv |-> Mv(NoSquare, NoSquare, None),
               captured_piece |-> None, is_promo |-> FALSE]
    /\ derived = [n \in BoardIDs |-> {}]
    /\ answer = [op |-> None, name |-> None, mv |-> Mv(NoSquare, NoSquare, None),
                 value |-> FALSE]
    /\ plies = 0

\* A query leaves the boards as they are, so a second query of a state
\* answers what it would have answered as the first: one per state is taken.
Unasked == answer.op = None

\* game.get_board(name).is_legal(mv)
IsLegalQuery(name, mv) ==
    /\ Unasked
    /\ answer' = [op |-> "is_legal", name |-> name, mv |-> mv,
                  value |-> IsLegal(boards[name], mv)]
    /\ UNCHANGED <<boards, result, last, derived, plies>>

\* game.get_board(name).is_mated()
IsMatedQuery(name) ==
    /\ Unasked
    /\ answer' = [op |-> "is_mated", name |-> name, mv |-> Mv(NoSquare, NoSquare, None),
                  value |-> IsMated(boards[name])]
    /\ UNCHANGED <<boards, result, last, derived, plies>>

NextQuery ==
    \/ \E name \in BoardIDs, mv \in QueryMoves : IsLegalQuery(name, mv)
    \/ \E name \in BoardIDs : IsMatedQuery(name)

SpecQuery == InitQuery /\ [][NextQuery]_vars

(***************************************************************************)
(* Properties of make_move, checked under Spec.                            *)
(***************************************************************************)
\* This step is a successful make_move (recorded in last').
Moved == plies' = plies + 1 /\ result' = "Ok"

\* This step is a successful make_move onto an occupied destination.
Captured == Moved /\ PieceOn(boards[last'.name].board.pos, last'.mv.dest) # None

\* The side that makes the move of this step, and the board it is not on.
Mover == boards[last'.name].board.stm
Partner == OtherBoard(last'.name)

\* The holdings of board n gain one `piece` under `color` in this step, and
\* change in nothing else.
Gains(n, color, piece) ==
    boards'[n].holdings = [boards[n].holdings EXCEPT ![color][piece] = @ + 1]

\* C1 as stated: after a successful capturing make_move, the entry
\* incremented on the other board is one under the mover's color.
C1_MoverColor ==
    [][Captured => \E p \in HeldPieces : Gains(Partner, Mover, p)]_vars

\* C1, amended: after a successful capturing make_move, the entry
\* incremented on the other board is one under the color of the captured
\* piece, the mover's opponent, and no entry under the mover's color changes.
C1_CapturedColor ==
    [][Captured => /\ \E p \in HeldPieces : Gains(Partner, Opp(Mover), p)
                   /\ boards'[Partner].holdings[Mover] = boards[Partner].holdings[Mover]]_vars

\* C1 witness: White has just captured the black rook on board A, and board
\* B holds it for Black.
C1_Witness ==
    /\ result = "Ok" /\ last.name = "A" /\ last.captured_piece = Rook
    /\ boards["A"].board.stm = Black
    /\ boards["B"].holdings[Black][Rook] = 1
    /\ boards["B"].holdings[White] = EmptyHoldings[White]

\* C2: promotion reversion.  Capturing a piece that descends from a
\* promoted pawn (however often it moved since) adds exactly one Pawn, and
\* nothing else, to the other board's holdings; whether it does is decided
\* by the state before the capturing move.
C2_PromotedGoesBackAsPawn ==
    [][(Captured /\ last'.mv.dest \in derived[last'.name])
          => \E c \in Colors : Gains(Partner, c, Pawn)]_vars

\* C2 witness: on board A the queen Black promoted on g1 went to g8 and was
\* captured there; board B got a pawn for it, and no queen.
C2_Witness ==
    /\ result = "Ok" /\ last.name = "A" /\ last.captured_piece = Queen
    /\ last.mv.dest = g8
    /\ boards["B"].holdings[Black][Pawn] = 1
    /\ boards["B"].holdings[Black][Queen] = 0

\* C3 as stated: capturing a piece that does not descend from a promoted
\* pawn adds exactly one unit of that piece's own type to the other board's
\* holdings.
C3_OwnTypeHanded ==
    [][(Captured /\ last'.mv.dest \notin derived[last'.name])
          => \E c \in Colors :
                Gains(Partner, c, PieceOn(boards[last'.name].board.pos, last'.mv.dest))]_vars

\* C4: a make_move that fails leaves both boards as they were: positions,
\* sides to move, holdings and promotion marks.
C4_FailedMoveChangesNothing ==
    [][result' \in {"IllegalMove", "UnheldDrop"} => boards' = boards]_vars

\* C4 witness: a make_move has just failed, in a state where a move onto an
\* occupied square fails.
C4_Witness ==
    /\ result = "IllegalMove"
    /\ \E name \in BoardIDs, mv \in MoveInputs :
          /\ ~IsLegalFaults(mv)
          /\ PieceOn(boards[name].board.pos, mv.dest) # None
          /\ ColorOn(boards[name].board.pos, mv.dest) # boards[name].board.stm
          /\ GameMakeMoveNew(boards, name, mv).res = "IllegalMove"

\* C10 as stated: every square marked as promoted for a color holds a piece
\* of that color.
C10_MarksAreOccupied ==
    \A n \in BoardIDs, c \in Colors :
        boards[n].promos[c] \subseteq Occupied(boards[n].board.pos, c)

\* C5: a rejected BughouseBoard::make_move, of a drop or of a standard
\* move, returns with the board's position, holdings and promotion marks as
\* they were before the call.
C5_RejectedApplyChangesNothing ==
    \A name \in BoardIDs, mv \in MoveInputs :
        ~IsLegalFaults(mv) =>
            LET made == BoardMakeMove(boards[name], mv)
            IN  made.res # "Ok" =>
                    /\ made.bb.board = boards[name].board
                    /\ made.bb.holdings = boards[name].holdings
                    /\ made.bb.promos = boards[name].promos

\* C5 witness: a call has just been rejected, and among the rejected moves
\* of the state are a drop of a piece the side to move holds and a move of
\* a promoted piece of the side to move.
C5_Witness ==
    /\ result = "IllegalMove"
    /\ \E name \in BoardIDs, mv \in MoveInputs :
          /\ mv.source = NoSquare /\ mv.piece \in HeldPieces
          /\ HasPiece(boards[name].holdings, boards[name].board.stm, mv.piece)
          /\ BoardMakeMove(boards[name], mv).res = "IllegalMove"
    /\ \E name \in BoardIDs, mv \in MoveInputs :
          /\ mv.source \in boards[name].promos[boards[name].board.stm]
          /\ BoardMakeMove(boards[name], mv).res = "IllegalMove"

\* C8: dropping a Pawn on the first or the last rank fails with IllegalMove
\* and leaves the holdings (and everything else) unchanged, also when the
\* side to move holds a Pawn and the square is empty.
C8_NoPawnDropOnBackRanks ==
    \A name \in BoardIDs, d \in InputSquares \cap BadPawnRanks :
        GameMakeMoveNew(boards, name, Mv(NoSquare, d, Pawn))
            = [res |-> "IllegalMove", boards |-> boards]

\* C8 witness: a call has just failed on a board whose side to move holds a
\* Pawn, is not in check, and has an empty square on the first or last
\* rank to try the drop on.
C8_Witness ==
    /\ result = "IllegalMove"
    /\ \E name \in BoardIDs, d \in InputSquares \cap BadPawnRanks :
          /\ HasPiece(boards[name].holdings, boards[name].board.stm, Pawn)
          /\ PieceOn(boards[name].board.pos, d) = None
          /\ ~InCheck(boards[name])

(***************************************************************************)
(* Properties of is_legal and is_mated, checked under SpecQuery.           *)
(***************************************************************************)
\* The board the last query was put to.
Asked == boards[answer.name]

\* x lies strictly between a and b on one rank, file or diagonal (stated
\* with vectors, independently of Between).
StrictlyBetween(x, a, b) ==
    LET ux == FileOf(x) - FileOf(a)
        uy == RankOf(x) - RankOf(a)
        vx == FileOf(b) - FileOf(x)
        vy == RankOf(b) - RankOf(x)
    IN  /\ ux * vy = uy * vx
        /\ ux * vx + uy * vy > 0
        /\ (ux = 0 \/ uy = 0 \/ ux = uy \/ ux = -uy)

\* The pieces of the side not to move that attack the king of the side to
\* move on the asked board.
CheckingPieces ==
    LET pos == Asked.board.pos
        k   == CHOOSE sq \in DOMAIN pos : pos[sq] = Pc(King, Asked.board.stm)
    IN  { sq \in DOMAIN pos : pos[sq].color # Asked.board.stm /\ Attacks(pos, sq, k) }

AskedKing == CHOOSE sq \in DOMAIN Asked.board.pos :
                 Asked.board.pos[sq] = Pc(King, Asked.board.stm)

\* C6: is_legal answers true for a drop exactly when (a) the side to move
\* holds a piece of the type, (b) the destination is empty, (c) the piece is
\* not a Pawn or the destination is not on the first or last rank, and (d)
\* the side to move is not in check or the destination lies strictly
\* between the only checking piece and its king.
C6_LegalDropIff ==
    (answer.op = "is_legal" /\ answer.mv.source = NoSquare /\ answer.mv.piece \in HeldPieces)
    => (answer.value <=>
          /\ Asked.holdings[Asked.board.stm][answer.mv.piece] >= 1
          /\ answer.mv.dest \notin DOMAIN Asked.board.pos
          /\ (answer.mv.piece # Pawn \/ RankOf(answer.mv.dest) \notin {1, BoardSize})
          /\ \/ CheckingPieces = {}
             \/ \E c \in CheckingPieces :
                   /\ CheckingPieces = {c}
                   /\ StrictlyBetween(answer.mv.dest, c, AskedKing))

\* C6 witness: is_legal has answered true for a drop that interposes while
\* the side to move is in check.
C6_Witness ==
    /\ answer.op = "is_legal" /\ answer.value
    /\ CheckingPieces # {}

\* C7: while the side to move is in check from two or more pieces, or from
\* a knight, is_legal answers false for every drop.
C7_NoDropInDoubleOrKnightCheck ==
    (/\ answer.op = "is_legal" /\ answer.mv.source = NoSquare
     /\ \/ Cardinality(CheckingPieces) >= 2
        \/ \E c \in CheckingPieces : Asked.board.pos[c].piece = Knight)
    => ~answer.value

\* C7 witness: is_legal has answered false for the drop of a held knight on
\* an empty square between one of two checking pieces and the king.
C7_Witness ==
    /\ answer.op = "is_legal" /\ ~answer.value
    /\ answer.mv.piece = Knight
    /\ Asked.holdings[Asked.board.stm][Knight] >= 1
    /\ answer.mv.dest \notin DOMAIN Asked.board.pos
    /\ Cardinality(CheckingPieces) = 2
    /\ \E c \in CheckingPieces : StrictlyBetween(answer.mv.dest, c, AskedKing)

\* C9: for a position whose status is Checkmate, is_mated answers false
\* exactly when there is one checking piece, it is not a knight, and some
\* square lies strictly between it and the king; otherwise it answers true.
C9_TerminalMateIff ==
    (answer.op = "is_mated" /\ Status(Asked.board) = "Checkmate")
    => (~answer.value <=>
          \E c \in CheckingPieces :
             /\ CheckingPieces = {c}
             /\ Asked.board.pos[c].piece # Knight
             /\ \E x \in Squares : StrictlyBetween(x, c, AskedKing))

\* C9 witness: is_mated has answered false for a checkmate position.
C9_Witness ==
    /\ answer.op = "is_mated" /\ ~answer.value
    /\ Status(Asked.board) = "Checkmate"

(***************************************************************************)
(* Holdings on its own.  board.holdings() hands out the Holdings of a      *)
(* board (bughouse_board.rs, test_holdings_mutability), and add and drop   *)
(* are called on it directly.  The holdings of board A start with every    *)
(* count at the same value, anywhere in the u8 range; `answer` keeps the   *)
(* call made and the holdings before it.                                   *)
(***************************************************************************)
\* Holdings are followed for this many calls.
MaxCalls == 2

HoldingsInputs ==
    { [c \in Colors |-> [p \in HeldPieces |-> v]] : v \in 0..(U8Mod - 1) }

InitHoldings ==
    /\ boards \in { [n \in BoardIDs |->
                       IF n = "A" THEN [StartB EXCEPT !.holdings = h] ELSE StartB] :
                    h \in HoldingsInputs }
    /\ result = None
    /\ last = [name |-> None, mv |-> Mv(NoSquare, NoSquare, None),
               captured_piece |-> None, is_promo |-> FALSE]
    /\ derived = [n \in BoardIDs |-> {}]
    /\ answer = [op |-> None, name |-> None, color |-> None, piece |-> None,
                 before |-> EmptyHoldings]
    /\ plies = 0

\* board.holdings().add(color, piece)
HoldingsAddCall(name, color, piece) ==
    /\ plies < MaxCalls
    /\ answer' = [op |-> "add", name |-> name, color |-> color, piece |-> piece,
                  before |-> boards[name].holdings]
    /\ \/ /\ result' = "Ok"
          /\ boards' = [boards EXCEPT ![name].holdings = HoldingsAdd(@, color, piece)]
       \/ /\ AddOverflows(boards[name].holdings, color, piece)
          /\ result' = "Panic"
          /\ UNCHANGED boards
    /\ plies' = plies + 1
    /\ UNCHANGED <<last, derived>>

\* board.holdings().drop(color, piece)
HoldingsDropCall(name, color, piece) ==
    /\ plies < MaxCalls
    /\ LET dropped == HoldingsDrop(boards[name].holdings, color, piece)
       IN  /\ result' = dropped.res
           /\ boards' = [boards EXCEPT ![name].holdings = dropped.holdings]
    /\ answer' = [op |-> "drop", name |-> name, color |-> color, piece |-> piece,
                  before |-> boards[name].holdings]
    /\ plies' = plies + 1
    /\ UNCHANGED <<last, derived>>

NextHoldings ==
    \/ \E color \in Colors, piece \in HeldPieces : HoldingsAddCall("A", color, piece)
    \/ \E color \in Colors, piece \in HeldPieces : HoldingsDropCall("A", color, piece)

SpecHoldings == InitHoldings /\ [][NextHoldings]_vars

(***************************************************************************)
(* Properties of Holdings (under SpecHoldings).                            *)
(***************************************************************************)
\* The holdings the calls are made on.
Held == boards["A"].holdings

\* C11: a drop of a piece whose count is zero fails with UnheldDrop and
\* leaves every count as it was; a drop of a held piece succeeds, takes
\* exactly one off that count and leaves the other counts alone; and no
\* count ever leaves the range of its u8.
C11_DropTakesOneOrFails ==
    /\ \A c \in Colors, p \in HeldPieces : Held[c][p] \in 0..(U8Mod - 1)
    /\ answer.op = "drop" =>
          IF answer.before[answer.color][answer.piece] = 0
          THEN result = "UnheldDrop" /\ Held = answer.before
          ELSE /\ result = "Ok"
               /\ Held = [answer.before EXCEPT
                            ![answer.color][answer.piece] = @ - 1]

\* C11: a second drop has been refused after the first took the last piece.
C11_Witness ==
    /\ answer.op = "drop"
    /\ result = "UnheldDrop"
    /\ plies = 2
    /\ \E c \in Colors, p \in HeldPieces : c # answer.color /\ Held[c][p] > 0

\* C12 as stated: add(c, t) followed at once by drop(c, t) succeeds and
\* gives back the holdings there were before the add, whatever the count.
C12_AddThenDropRestores ==
    [][ ( /\ answer.op = "add"
          /\ answer'.op = "drop"
          /\ answer'.color = answer.color
          /\ answer'.piece = answer.piece )
        => ( /\ result = "Ok"
             /\ result' = "Ok"
             /\ Held' = answer.before ) ]_vars

(***************************************************************************)
(* Further properties of the game (under Spec).                            *)
(***************************************************************************)
\* The board the step's make_move succeeded on, and its move.
MovedOn == last'.name
MovedMv == last'.mv

\* C13: a successful make_move on a board, standard move or drop, gives the
\* turn on that board to the other color, and nothing else changes whose
\* turn it is: not a rejected call, and not a move on the other board.  So
\* the successful moves on a board alternate colors from its first mover.
C13_SuccessFlipsSideToMove ==
    [][ \A n \in BoardIDs :
          boards'[n].board.stm =
              IF Moved /\ MovedOn = n
              THEN Opp(boards[n].board.stm)
              ELSE boards[n].board.stm ]_vars

\* C13 witness: a drop has just succeeded, after standard moves, and it is
\* the other side's turn on that board now.
C13_Witness ==
    /\ result = "Ok"
    /\ plies >= 3
    /\ last.mv.source = NoSquare
    /\ ColorOn(boards[last.name].board.pos, last.mv.dest)
          = Opp(boards[last.name].board.stm)

\* C14: a successful standard move, capturing or not, leaves the holdings
\* of the board it is made on unchanged; the holdings of the board moved on
\* change exactly when the move is a drop.
C14_OwnHoldingsChangeOnlyByDrop ==
    [][ Moved =>
          ( boards'[MovedOn].holdings # boards[MovedOn].holdings
              <=> MovedMv.source = NoSquare ) ]_vars

\* C14 witness: a standard move has just captured a piece.
C14_Witness ==
    /\ result = "Ok"
    /\ last.name # None
    /\ last.mv.source # NoSquare
    /\ last.captured_piece # None

\* C15 as stated: make_move with a drop of a King returns IllegalMove like
\* any other illegal move and leaves the game as it was.
C15_KingDropIsIllegalMove ==
    [][ \A name \in BoardIDs, d \in InputSquares :
          MakeMove(name, Mv(NoSquare, d, King))
              => (result' = "IllegalMove" /\ boards' = boards) ]_vars

(***************************************************************************)
(* Texts.  A text is a sequence of characters (one-character strings).     *)
(* The operators below are the string functions the parsers call, and the  *)
(* parsers of the chess crate the repository relies on.                    *)
(***************************************************************************)
FileLetters == <<"a", "b", "c", "d", "e", "f", "g", "h">>
RankDigits == <<"1", "2", "3", "4", "5", "6", "7", "8">>

\* The position of ch in a tuple of characters, or 0.
IndexIn(chars, ch) ==
    IF \E i \in DOMAIN chars : chars[i] = ch
    THEN CHOOSE i \in DOMAIN chars : chars[i] = ch
    ELSE 0

\* str::matches(ch).count()
CountMatches(text, ch) == Cardinality({ i \in DOMAIN text : text[i] = ch })

\* str::find(ch) / str::rfind(ch): the first / last index of ch, or 0.
Find(text, ch) ==
    IF CountMatches(text, ch) = 0 THEN 0
    ELSE CHOOSE i \in DOMAIN text :
             text[i] = ch /\ \A j \in DOMAIN text : text[j] = ch => i <= j
RFind(text, ch) ==
    IF CountMatches(text, ch) = 0 THEN 0
    ELSE CHOOSE i \in DOMAIN text :
             text[i] = ch /\ \A j \in DOMAIN text : text[j] = ch => j <= i

\* The text from index i on.
From(text, i) == SubSeq(text, i, Len(text))

\* str::replace(ch, ""): the text without its occurrences of ch.
Without(text, ch) == SelectSeq(text, LAMBDA c : c # ch)

\* str::split(ch): the pieces of the text between occurrences of ch.
RECURSIVE Split(_, _)
Split(text, ch) ==
    LET i == Find(text, ch)
    IN  IF i = 0 THEN <<text>>
        ELSE <<SubSeq(text, 1, i - 1)>> \o Split(From(text, i + 1), ch)

\* The piece part or the missing part of a split: parts.next().unwrap_or("").
PartOr(parts, i) == IF i <= Len(parts) THEN parts[i] ELSE <<>>

\* chess::Square::from_str: a file letter and a rank digit; what follows
\* them is not looked at.
SquareFromStr(text) ==
    IF Len(text) < 2 \/ IndexIn(FileLetters, text[1]) = 0 \/ IndexIn(RankDigits, text[2]) = 0
    THEN [res |-> "InvalidSquare", sq |-> NoSquare]
    ELSE [res |-> "Ok", sq |-> <<IndexIn(FileLetters, text[1]), IndexIn(RankDigits, text[2])>>]

\* Display of chess::Square
SquareToString(sq) == <<FileLetters[FileOf(sq)], RankDigits[RankOf(sq)]>>

\* Display of chess::Piece: the lower-case letter.
PieceToString(piece) ==
    CASE piece = Pawn   -> <<"p">>
      [] piece = Knight -> <<"n">>
      [] piece = Bishop -> <<"b">>
      [] piece = Rook   -> <<"r">>
      [] piece = Queen  -> <<"q">>
      [] piece = King   -> <<"k">>

\* chess::ChessMove::from_str: source and destination squares, and for a
\* text of exactly five characters a promotion letter out of q, r, n, b.
ChessMoveFromStr(text) ==
    LET bad    == [res |-> "InvalidUciMove", mv |-> Mv(NoSquare, NoSquare, None)]
        source == SquareFromStr(SubSeq(text, 1, 2))
        dest   == SquareFromStr(SubSeq(text, 3, 4))
        promo  == IF Len(text) # 5 THEN None
                  ELSE CASE text[5] = "q" -> Queen
                         [] text[5] = "r" -> Rook
                         [] text[5] = "n" -> Knight
                         [] text[5] = "b" -> Bishop
                         [] OTHER -> "Err"
    IN  IF Len(text) < 4 \/ source.res # "Ok" \/ dest.res # "Ok" \/ promo = "Err"
        THEN bad
        ELSE [res |-> "Ok", mv |-> Mv(source.sq, dest.sq, promo)]

(***************************************************************************)
(* bughouse_move.rs: parsing and printing moves.                           *)
(***************************************************************************)
\* piece_from_drop_str: one letter, in either case; no King.
PieceFromDropStr(text) ==
    CASE text \in {<<"p">>, <<"P">>} -> Pawn
      [] text \in {<<"n">>, <<"N">>} -> Knight
      [] text \in {<<"b">>, <<"B">>} -> Bishop
      [] text \in {<<"r">>, <<"R">>} -> Rook
      [] text \in {<<"q">>, <<"Q">>} -> Queen
      [] OTHER -> None

\* BughouseMove::from_drop_str
FromDropStr(text) ==
    LET parts   == Split(text, "@")
        piece   == PieceFromDropStr(PartOr(parts, 1))
        dest_sq == SquareFromStr(PartOr(parts, 2))
    IN  IF piece # None /\ dest_sq.res = "Ok"
        THEN [res |-> "Ok", mv |-> Mv(NoSquare, dest_sq.sq, piece)]
        ELSE [res |-> "None", mv |-> Mv(NoSquare, NoSquare, None)]

\* FromStr for BughouseMove
BughouseMoveFromStr(text) ==
    LET chess == ChessMoveFromStr(text)
        drop  == FromDropStr(text)
    IN  IF chess.res = "Ok" THEN chess
        ELSE IF drop.res = "Ok" THEN drop
        ELSE [res |-> "MoveParseError", mv |-> Mv(NoSquare, NoSquare, None)]

\* What Display writes before the destination of a move with neither source
\* nor piece.
InvalidMoveText ==
    <<"<", "I", "n", "v", "a", "l", "i", "d", ":", " ", "o", "n", "l", "y", " ",
      "d", "e", "s", "t", ">", ":", " ">>

\* Display that prints the promotion piece of a move in upper case.
MoveToString_UpperCasePromotion(mv) ==
    CASE mv.source = NoSquare /\ mv.piece # None ->
             PieceToString(mv.piece) \o <<"@">> \o SquareToString(mv.dest)
      [] mv.source # NoSquare /\ mv.piece # None ->
             SquareToString(mv.source) \o SquareToString(mv.dest)
                 \o (IF mv.piece = Queen THEN <<"Q">> ELSE PieceToString(mv.piece))
      [] mv.source # NoSquare /\ mv.piece = None ->
             SquareToString(mv.source) \o SquareToString(mv.dest)
      [] OTHER -> InvalidMoveText \o SquareToString(mv.dest)

\* Display for BughouseMove
MoveToString(mv) ==
    CASE mv.source = NoSquare /\ mv.piece # None ->
             PieceToString(mv.piece) \o <<"@">> \o SquareToString(mv.dest)
      [] mv.source # NoSquare /\ mv.piece # None ->
             SquareToString(mv.source) \o SquareToString(mv.dest) \o PieceToString(mv.piece)
      [] mv.source # NoSquare /\ mv.piece = None ->
             SquareToString(mv.source) \o SquareToString(mv.dest)
      [] OTHER -> InvalidMoveText \o SquareToString(mv.dest)

(***************************************************************************)
(* Parsing positions: Holdings::from_str, Promotions::from_fen, the FEN    *)
(* parser of the chess crate, BughouseBoard::from_str and                  *)
(* BughouseGame::from_str.                                                 *)
(***************************************************************************)
\* The letter of a piece in a position text: upper case for White.
PieceLetter(piece, color) ==
    IF color = White
    THEN CASE piece = Pawn -> "P" [] piece = Knight -> "N" [] piece = Bishop -> "B"
           [] piece = Rook -> "R" [] piece = Queen -> "Q" [] piece = King -> "K"
    ELSE PieceToString(piece)[1]

\* The piece and color a letter stands for; IsPieceLetter says whether it
\* stands for one.
IsPieceLetter(ch) == \E q \in Pieces, c \in Colors : PieceLetter(q, c) = ch
LetterPiece(ch) ==
    CHOOSE pc \in [piece : Pieces, color : Colors] : PieceLetter(pc.piece, pc.color) = ch

\* str::trim, of spaces.
RECURSIVE Trim(_)
Trim(text) ==
    IF text = <<>> THEN text
    ELSE IF Head(text) = " " THEN Trim(Tail(text))
    ELSE IF text[Len(text)] = " " THEN Trim(SubSeq(text, 1, Len(text) - 1))
    ELSE text

\* Holdings::from_str: one count up per letter; a letter that is no held
\* piece is the error HoldingsParseError.
HoldingsFromStr(value) ==
    LET chars == Trim(value)
    IN  IF \E i \in DOMAIN chars :
              ~ \E q \in HeldPieces, c \in Colors : PieceLetter(q, c) = chars[i]
        THEN [res |-> "HoldingsParseError", holdings |-> EmptyHoldings]
        ELSE [res |-> "Ok",
              holdings |-> [c \in Colors |-> [q \in HeldPieces |->
                              CountMatches(chars, PieceLetter(q, c))]]]

\* The loop of BoardBuilder::from_str over the placement field: '/' starts
\* the next rank down, a digit skips files, a piece letter puts a piece and
\* steps right (ranks and files wrap around), anything else is an error.
RECURSIVE PlacePieces(_, _, _, _)
PlacePieces(chars, rank, file, pos) ==
    IF chars = <<>> THEN [res |-> "Ok", pos |-> pos]
    ELSE LET x    == Head(chars)
             rest == Tail(chars)
         IN  IF x = "/"
             THEN PlacePieces(rest, IF rank = 1 THEN BoardSize ELSE rank - 1, 1, pos)
             ELSE IF IndexIn(RankDigits, x) # 0
             THEN PlacePieces(rest, rank,
                              ((file - 1 + IndexIn(RankDigits, x)) % BoardSize) + 1, pos)
             ELSE IF IsPieceLetter(x)
             THEN PlacePieces(rest, rank, (file % BoardSize) + 1,
                              [ sq \in DOMAIN pos \cup {<<file, rank>>} |->
                                  IF sq = <<file, rank>> THEN LetterPiece(x) ELSE pos[sq] ])
             ELSE [res |-> "InvalidFen", pos |-> pos]

\* The board no call produced.
NoBoard ==
    [board |-> [pos |-> <<>>, stm |-> White, ep |-> NoSquare],
     holdings |-> EmptyHoldings, promos |-> EmptyPromos]

\* chess::Board::from_str: placement, side to move, castling and en-passant
\* fields (no castling rights are kept here), then the sanity test of
\* try_into.
ChessBoardFromStr(value) ==
    LET tokens == Split(value, " ")
        placed == PlacePieces(tokens[1], BoardSize, 1, <<>>)
        stm    == CASE tokens[2] \in {<<"w">>, <<"W">>} -> White
                    [] tokens[2] \in {<<"b">>, <<"B">>} -> Black
                    [] OTHER -> None
        epsq   == SquareFromStr(tokens[4])
        built  == [pos |-> placed.pos, stm |-> stm,
                   ep  |-> IF epsq.res = "Ok"
                           THEN <<FileOf(epsq.sq), IF stm = White THEN 5 ELSE 4>>
                           ELSE NoSquare]
    IN  IF Len(tokens) < 4 \/ placed.res # "Ok" \/ stm = None
        THEN [res |-> "InvalidFen", board |-> NoBoard.board]
        ELSE IF ~IsSane(built)
        THEN [res |-> "InvalidBoard", board |-> NoBoard.board]
        ELSE [res |-> "Ok", board |-> built]

\* One row of Promotions::from_fen: the squares of `rank` marked with '~',
\* each for the color of the piece letter before it.
RECURSIVE RowPromos(_, _, _, _, _)
RowPromos(chars, rank, file_idx, last_color, promos) ==
    IF chars = <<>> THEN promos
    ELSE LET ch   == Head(chars)
             rest == Tail(chars)
         IN  IF IndexIn(RankDigits, ch) # 0
             THEN RowPromos(rest, rank, file_idx + IndexIn(RankDigits, ch), last_color, promos)
             ELSE IF IsPieceLetter(ch)
             THEN RowPromos(rest, rank, file_idx + 1, LetterPiece(ch).color, promos)
             ELSE IF ch = "~"
             THEN RowPromos(rest, rank, file_idx, last_color,
                            AddSquare(promos, last_color,
                                      <<((file_idx - 1) % BoardSize) + 1, rank>>))
             ELSE RowPromos(rest, rank, file_idx, last_color, promos)

\* Promotions::from_fen: the rows of the placement, from the eighth rank
\* down, as far as there are ranks.
RECURSIVE RowsPromos(_, _, _)
RowsPromos(rows, rank, promos) ==
    IF rows = <<>> \/ rank = 0 THEN promos
    ELSE RowsPromos(Tail(rows), rank - 1, RowPromos(Head(rows), rank, 0, White, promos))

PromotionsFromFen(fen) == RowsPromos(Split(fen, "/"), BoardSize, EmptyPromos)

\* BughouseBoard::from_str.  The result is "Ok" with the board, the error
\* BoardParseError, or "Panic" where the code unwraps a missing space, a
\* missing '/', or the error of Holdings::from_str or Board::from_str.
BughouseBoardFromStr(input_str) ==
    LET count        == CountMatches(input_str, "/")
        sp           == Find(input_str, " ")
        bugboard_str == SubSeq(input_str, 1, sp - 1)
        rest         == From(input_str, sp)
        cut          == RFind(bugboard_str, "/")
        board_part   == IF count = 8 THEN SubSeq(bugboard_str, 1, cut - 1) ELSE bugboard_str
        holdings_str == IF count = 8 THEN From(bugboard_str, cut + 1) ELSE <<>>
        board_str    == Without(board_part, "~") \o rest
        holdings     == HoldingsFromStr(holdings_str)
        board        == ChessBoardFromStr(board_str)
    IN  IF count < 7 \/ count > 8
        THEN [res |-> "BoardParseError", bb |-> NoBoard]
        ELSE IF sp = 0 \/ (count = 8 /\ cut = 0)
        THEN [res |-> "Panic", bb |-> NoBoard]
        ELSE IF holdings.res # "Ok" \/ board.res # "Ok"
        THEN [res |-> "Panic", bb |-> NoBoard]
        ELSE [res |-> "Ok",
              bb  |-> [board |-> board.board, holdings |-> holdings.holdings,
                       promos |-> PromotionsFromFen(board_part)]]

\* str::split_once(" | "): the index of the first " | " in the text, or 0.
FindSeparator(text) ==
    LET at(i) == i + 2 <= Len(text) /\ SubSeq(text, i, i + 2) = <<" ", "|", " ">>
    IN  IF \E i \in DOMAIN text : at(i)
        THEN CHOOSE i \in DOMAIN text : at(i) /\ \A j \in DOMAIN text : at(j) => i <= j
        ELSE 0

\* BughouseGame::from_str: board A, then board B, each error or fault of a
\* board ending the call; GameParseError without the separator.
BughouseGameFromStr(input_str) ==
    LET i       == FindSeparator(input_str)
        board_a == BughouseBoardFromStr(SubSeq(input_str, 1, i - 1))
        board_b == BughouseBoardFromStr(From(input_str, i + 3))
        none    == [n \in BoardIDs |-> NoBoard]
    IN  IF i = 0 THEN [res |-> "GameParseError", boards |-> none]
        ELSE IF board_a.res # "Ok" THEN [res |-> board_a.res, boards |-> none]
        ELSE IF board_b.res # "Ok" THEN [res |-> board_b.res, boards |-> none]
        ELSE [res |-> "Ok",
              boards |-> [n \in BoardIDs |-> IF n = "A" THEN board_a.bb ELSE board_b.bb]]

(***************************************************************************)
(* Parsing, as a state machine.  A call of from_str takes one of the texts *)
(* below; a parsed move is printed with Display and the printed text       *)
(* parsed again.  `answer` keeps the call, its text and its move, and the  *)
(* text and move of the first parse of the chain; `boards` is what a       *)
(* position parse produced (board A for a single board).                   *)
(***************************************************************************)
\* Move texts are tried up to this length.
MaxMoveLen == 5

MoveChars == {"b", "7", "8", "q", "Q", "P", "@", "k"}

\* The texts of at most n characters out of MoveChars.
RECURSIVE MoveTexts(_)
MoveTexts(n) ==
    IF n = 0 THEN {<<>>}
    ELSE LET shorter == MoveTexts(n - 1)
         IN  shorter \cup { Append(t, c) : t \in shorter, c \in MoveChars }

\* Placement fields: those of StartA and StartB, one with a promoted queen
\* marked "~", and one with a rank missing.
PlacementA ==
    <<"7", "r", "/", "8", "/", "5", "N", "1", "P", "/", "k", "7", "/", "8",
      "/", "K", "7", "/", "6", "p", "1", "/", "8">>
PlacementB ==
    <<"6", "r", "1", "/", "8", "/", "8", "/", "k", "7", "/", "8", "/", "8",
      "/", "8", "/", "6", "K", "1">>
PlacementMarked ==
    <<"6", "q", "~", "1", "/", "8", "/", "8", "/", "k", "7", "/", "8", "/",
      "8", "/", "8", "/", "6", "K", "1">>
PlacementShort ==
    <<"6", "r", "1", "/", "8", "/", "8", "/", "k", "7", "/", "8", "/", "8",
      "/", "6", "K", "1">>
Placements == {PlacementA, PlacementB, PlacementMarked, PlacementShort}

\* What follows the placement up to the first space: nothing, "/" and the
\* holdings (empty, held pieces, a king, an unknown letter), or two more
\* fields.
HoldingsFields ==
    { <<>>, <<"/">>, <<"/", "P">>, <<"/", "q", "N">>, <<"/", "k">>,
      <<"/", "P", "x">>, <<"/", "P", "/", "q">> }

\* The fields after the placement: side to move, castling, en passant; or
\* nothing at all.
TailFields ==
    { <<" ", "w", " ", "-", " ", "-">>, <<" ", "b", " ", "-", " ", "-">>, <<>> }

BoardTexts == { pl \o h \o t : pl \in Placements, h \in HoldingsFields, t \in TailFields }

\* Second boards of game texts, and what stands between the two boards.
SecondBoardTexts ==
    { pl \o h \o <<" ", "w", " ", "-", " ", "-">> :
        pl \in {PlacementB, PlacementShort}, h \in {<<>>, <<"/", "q", "N">>, <<"/", "k">>} }
Separators == { <<" ", "|", " ">>, <<"|">> }

GameTexts == { a \o sep \o b : a \in BoardTexts, sep \in Separators, b \in SecondBoardTexts }

NoMove == Mv(NoSquare, NoSquare, None)

InitParse ==
    /\ boards = [n \in BoardIDs |-> NoBoard]
    /\ result = None
    /\ last = [name |-> None, mv |-> NoMove, captured_piece |-> None, is_promo |-> FALSE]
    /\ derived = [n \in BoardIDs |-> {}]
    /\ answer = [op |-> None, text |-> <<>>, mv |-> NoMove,
                 first_text |-> <<>>, first_mv |-> NoMove]
    /\ plies = 0

\* BughouseMove::from_str(text), of a text given or of the text just printed.
MoveFromStrCall(text) ==
    /\ \/ answer.op = None
       \/ answer.op = "to_string" /\ text = answer.text
    /\ LET parsed == BughouseMoveFromStr(text)
       IN  /\ result' = parsed.res
           /\ answer' = IF answer.op = None
                        THEN [op |-> "from_str", text |-> text, mv |-> parsed.mv,
                              first_text |-> text, first_mv |-> parsed.mv]
                        ELSE [answer EXCEPT !.op = "from_str_again", !.mv = parsed.mv]
    /\ UNCHANGED <<boards, last, derived, plies>>

\* mv.to_string(), of the move just parsed.
MoveToStringCall ==
    /\ answer.op = "from_str"
    /\ result = "Ok"
    /\ answer' = [answer EXCEPT !.op = "to_string", !.text = MoveToString(answer.mv)]
    /\ UNCHANGED <<boards, result, last, derived, plies>>

\* BughouseBoard::from_str(text)
BoardFromStrCall(text) ==
    /\ answer.op = None
    /\ LET parsed == BughouseBoardFromStr(text)
       IN  /\ result' = parsed.res
           /\ boards' = IF parsed.res = "Ok"
                        THEN [boards EXCEPT !["A"] = parsed.bb]
                        ELSE boards
    /\ answer' = [answer EXCEPT !.op = "board_from_str", !.text = text, !.first_text = text]
    /\ UNCHANGED <<last, derived, plies>>

\* BughouseGame::from_str(text)
GameFromStrCall(text) ==
    /\ answer.op = None
    /\ LET parsed == BughouseGameFromStr(text)
       IN  /\ result' = parsed.res
           /\ boards' = IF parsed.res = "Ok" THEN parsed.boards ELSE boards
    /\ answer' = [answer EXCEPT !.op = "game_from_str", !.text = text, !.first_text = text]
    /\ UNCHANGED <<last, derived, plies>>

AllMoveTexts == MoveTexts(MaxMoveLen)

NextParse ==
    \/ answer.op = None /\ \E text \in AllMoveTexts : MoveFromStrCall(text)
    \/ answer.op = "to_string" /\ MoveFromStrCall(answer.text)
    \/ MoveToStringCall
    \/ answer.op = None /\ \E text \in BoardTexts : BoardFromStrCall(text)
    \/ answer.op = None /\ \E text \in GameTexts : GameFromStrCall(text)

SpecParse == InitParse /\ [][NextParse]_vars

(***************************************************************************)
(* Properties of parsing (under SpecParse).                                *)
(***************************************************************************)
\* The three ways a position text is malformed: a number of '/' other than
\* 7 or 8; with 8 of them, a letter in the holdings field (after the last
\* '/' and before the first space, which is there) that is none of
\* p n b r q P N B R Q; and a game text without " | ".
BadRankCount(text) == CountMatches(text, "/") \notin 7..8

ReserveField(text) ==
    LET sp   == Find(text, " ")
        head == IF sp = 0 THEN text ELSE SubSeq(text, 1, sp - 1)
    IN  From(head, RFind(head, "/") + 1)

BadReserveLetter(text) ==
    /\ CountMatches(text, "/") = 8
    /\ Find(text, " ") # 0
    /\ \E i \in DOMAIN ReserveField(text) :
          ReserveField(text)[i] \notin
              {"p", "n", "b", "r", "q", "P", "N", "B", "R", "Q"}

MalformedBoardText(text) == BadRankCount(text) \/ BadReserveLetter(text)

MalformedGameText(text) ==
    LET i == FindSeparator(text)
        a == SubSeq(text, 1, i - 1)
        b == From(text, i + 3)
    IN  \/ i = 0
        \/ MalformedBoardText(a)
        \/ BughouseBoardFromStr(a).res = "Ok" /\ MalformedBoardText(b)

ParseErrors == {"BoardParseError", "HoldingsParseError", "GameParseError"}

\* C16 as stated: parsing a position text that is malformed in one of the
\* three ways returns a parse error, not a fault, and produces no board and
\* no game.
C16_MalformedTextIsParseError ==
    /\ (answer.op = "board_from_str" /\ MalformedBoardText(answer.text))
          => (result \in ParseErrors /\ boards = [n \in BoardIDs |-> NoBoard])
    /\ (answer.op = "game_from_str" /\ MalformedGameText(answer.text))
          => (result \in ParseErrors /\ boards = [n \in BoardIDs |-> NoBoard])

\* C17: a move text that from_str accepts, printed and parsed again, is
\* accepted again and gives the same move: the same source or none, the
\* same destination, the same piece.
C17_ParsePrintParse ==
    answer.op = "from_str_again" => (result = "Ok" /\ answer.mv = answer.first_mv)

\* C17 witness: a drop written with an upper-case letter has come back from
\* the second parse, the printed text being a different one.
C17_Witness ==
    /\ answer.op = "from_str_again"
    /\ result = "Ok"
    /\ answer.mv.source = NoSquare
    /\ answer.text # answer.first_text

(***************************************************************************)
(* Promotion marks and drops in the game (under Spec and SpecDrop).        *)
(***************************************************************************)
\* C18 as stated: after every successful standard move, a promotion that
\* captures included, the destination is not marked for the opponent of
\* the mover.
C18_OpponentMarkClearedAtDest ==
    [][ (Moved /\ MovedMv.source # NoSquare) =>
          ~IsPromo(boards'[MovedOn].promos, Opp(boards[MovedOn].board.stm), MovedMv.dest)
      ]_vars

\* C19: on a successful standard move the mover's marks follow the piece: a
\* promotion marks the destination; a move of a marked piece takes the mark
\* from the source to the destination; any other move leaves the mover's
\* marks as they are; and for neither color does a square other than the
\* source and the destination change its mark, on either board.
C19_MoverMarksFollowPiece ==
    [][ (Moved /\ MovedMv.source # NoSquare) =>
          LET mover == boards[MovedOn].board.stm
              pre   == boards[MovedOn].promos
              post  == boards'[MovedOn].promos
              mv    == MovedMv
          IN  /\ post[mover] =
                    IF mv.piece # None THEN pre[mover] \cup {mv.dest}
                    ELSE IF mv.source \in pre[mover]
                         THEN (pre[mover] \ {mv.source}) \cup {mv.dest}
                         ELSE pre[mover]
              /\ \A c \in Colors :
                    post[c] \ {mv.source, mv.dest} = pre[c] \ {mv.source, mv.dest}
              /\ boards'[OtherBoard(MovedOn)].promos = boards[OtherBoard(MovedOn)].promos
      ]_vars

\* C19 witness: a promoted piece has just made a move that is no promotion:
\* its destination is marked for the mover, its source is not, and the
\* piece there does descend from a pawn.
C19_Witness ==
    /\ result = "Ok"
    /\ last.name # None
    /\ last.mv.source # NoSquare
    /\ last.mv.piece = None
    /\ last.mv.dest \in boards[last.name].promos[Opp(boards[last.name].board.stm)]
    /\ last.mv.source \notin boards[last.name].promos[Opp(boards[last.name].board.stm)]
    /\ last.mv.dest \in derived[last.name]

\* A game whose board A has an en-passant square: White has just played
\* g2g4 beside the black pawn on h4; Black, to move, holds a knight and
\* White a pawn.
EnPassantText ==
    <<"6", "k", "1", "/", "8", "/", "8", "/", "8", "/", "6", "P", "p", "/",
      "8", "/", "8", "/", "6", "K", "1", "/", "n", "P", " ", "b", " ",
      "-", " ", "g", "3">>

InitDrop ==
    /\ boards = [n \in BoardIDs |->
                   IF n = "A" THEN BughouseBoardFromStr(EnPassantText).bb ELSE StartB]
    /\ result = None
    /\ last = [name |-> None, mv |-> NoMove, captured_piece |-> None, is_promo |-> FALSE]
    /\ derived = [n \in BoardIDs |-> {}]
    /\ answer = [op |-> None, name |-> None, mv |-> NoMove, value |-> FALSE]
    /\ plies = 0

SpecDrop == InitDrop /\ [][Next]_vars

\* C20: a successful drop takes exactly one piece of the dropped type off
\* the holdings of the side that drops and changes no other count; puts a
\* piece of that type and color on the destination, which was empty, and
\* changes no other square; leaves no en-passant square; leaves the
\* promotion marks of both colors as they were; and leaves the other board,
\* its holdings included, untouched.
C20_DropEffect ==
    [][ (Moved /\ MovedMv.source = NoSquare) =>
          LET pre   == boards[MovedOn]
              post  == boards'[MovedOn]
              color == pre.board.stm
              piece == MovedMv.piece
              dest  == MovedMv.dest
          IN  /\ pre.holdings[color][piece] > 0
              /\ post.holdings = [pre.holdings EXCEPT ![color][piece] = @ - 1]
              /\ dest \notin DOMAIN pre.board.pos
              /\ DOMAIN post.board.pos = DOMAIN pre.board.pos \cup {dest}
              /\ post.board.pos[dest] = Pc(piece, color)
              /\ \A sq \in DOMAIN pre.board.pos : post.board.pos[sq] = pre.board.pos[sq]
              /\ post.board.ep = NoSquare
              /\ post.promos = pre.promos
              /\ boards'[OtherBoard(MovedOn)] = boards[OtherBoard(MovedOn)]
      ]_vars

\* C20 witness: the first move on board A was Black's drop of the knight,
\* made while the en-passant square was set; the pawns stand as they stood.
C20_Witness ==
    /\ plies = 1
    /\ result = "Ok"
    /\ last.name = "A"
    /\ last.mv.source = NoSquare
    /\ last.mv.piece = Knight
    /\ boards["A"].board.ep = NoSquare
    /\ PieceOn(boards["A"].board.pos, <<7, 4>>) = Pawn
    /\ PieceOn(boards["A"].board.pos, <<8, 4>>) = Pawn

(***************************************************************************)
(* The two boards of a game are coupled by handed-over pieces only.        *)
(***************************************************************************)
\* The states the other board is replaced by when a call is repeated: the
\* two starting boards and the state of the board the move is made on.
OtherStates(name) == {StartA, StartB, boards[name]}

\* C21: make_move(X, mv) returns the same result, and leaves board X the
\* same, whatever the state of the other board Y; it leaves Y's position,
\* side to move and promotion marks as they were; and Y's holdings are either
\* unchanged or, when the move succeeded and its destination on X held a
\* piece, greater by one in exactly one entry.
C21_BoardIsolation ==
    \A name \in BoardIDs, mv \in MoveInputs :
        ~IsLegalFaults(mv) =>
            LET y    == OtherBoard(name)
                made == GameMakeMoveNew(boards, name, mv)
            IN  /\ \A other \in OtherStates(name) :
                      LET again == GameMakeMoveNew([boards EXCEPT ![y] = other], name, mv)
                      IN  /\ again.res = made.res
                          /\ again.boards[name] = made.boards[name]
                /\ made.boards[y].board = boards[y].board
                /\ made.boards[y].promos = boards[y].promos
                /\ \/ made.boards[y].holdings = boards[y].holdings
                   \/ /\ made.res = "Ok"
                      /\ PieceOn(boards[name].board.pos, mv.dest) # None
                      /\ \E c \in Colors, p \in HeldPieces :
                            made.boards[y].holdings =
                                [boards[y].holdings EXCEPT ![c][p] = @ + 1]

\* C21 witness: a capture has just succeeded on one board while the other
\* board, which holds a handed-over piece, differs from it in position, and
\* the state offers a further capture and a rejected move on the same board.
C21_Witness ==
    /\ result = "Ok" /\ last.captured_piece # None
    /\ boards[OtherBoard(last.name)].holdings # EmptyHoldings
    /\ boards["A"].board # boards["B"].board
    /\ \E mv \in MoveInputs :
          /\ ~IsLegalFaults(mv)
          /\ PieceOn(boards[last.name].board.pos, mv.dest) # None
          /\ GameMakeMoveNew(boards, last.name, mv).res = "Ok"
    /\ \E mv \in MoveInputs :
          /\ ~IsLegalFaults(mv)
          /\ GameMakeMoveNew(boards, last.name, mv).res # "Ok"

(***************************************************************************)
(* is_mated against the holdings and against the legality of drops.        *)
(***************************************************************************)
\* Holdings a board is asked about again with: none, those of the boards
\* asked, one of every type for both colors, and a lone white queen.
OtherReserves ==
    QueryHoldings \cup { [c \in Colors |-> [p \in HeldPieces |-> 1]],
                         [EmptyHoldings EXCEPT ![White][Queen] = 1] }

\* C22: the answer of is_mated for a board is the answer for every board
\* with the same position and promotion marks and other holdings, empty
\* holdings included.
C22_MateIgnoresHoldings ==
    answer.op = "is_mated" =>
        \A h \in OtherReserves :
            IsMated([Asked EXCEPT !.holdings = h]) = answer.value

\* C22 witness: is_mated has answered false for a checkmate position whose
\* side to move holds nothing.
C22_Witness ==
    /\ answer.op = "is_mated" /\ ~answer.value
    /\ Status(Asked.board) = "Checkmate"
    /\ Asked.holdings = EmptyHoldings

\* The board asked about, with one queen held by the side to move.
WithQueen(bb) == [bb EXCEPT !.holdings[bb.board.stm][Queen] = 1]

\* C24: for a position whose status is Checkmate, is_mated answers false
\* exactly when is_legal accepts a queen drop on some square once the side
\* to move holds a queen; and when is_mated answers true, is_legal accepts
\* no drop of any type on any square, whatever the holdings.
C24_MateAgreesWithDrops ==
    (answer.op = "is_mated" /\ Status(Asked.board) = "Checkmate")
    => /\ ~answer.value <=>
             \E sq \in Squares : IsLegal(WithQueen(Asked), Mv(NoSquare, sq, Queen))
       /\ answer.value =>
             \A h \in OtherReserves, sq \in Squares, p \in HeldPieces :
                 ~IsLegal([Asked EXCEPT !.holdings = h], Mv(NoSquare, sq, p))

\* C24 witness: is_mated has answered true for a checkmate position by two
\* checking pieces whose side to move holds a knight and a pawn.
C24_Witness ==
    /\ answer.op = "is_mated" /\ answer.value
    /\ Status(Asked.board) = "Checkmate"
    /\ Cardinality(CheckingPieces) > 1
    /\ HasPiece(Asked.holdings, Asked.board.stm, Knight)

(***************************************************************************)
(* Material.  The game with the en-passant square of EnPassantText is      *)
(* played with the en-passant capture h4g3 among the moves passed to       *)
(* make_move.                                                              *)
(***************************************************************************)
g3 == <<7, 3>>
h4 == <<8, 4>>

EnPassantInputs == MoveInputs \cup { Mv(h4, g3, None) }

NextEnPassant == \E name \in BoardIDs, mv \in EnPassantInputs : MakeMove(name, mv)

SpecEnPassant == InitDrop /\ [][NextEnPassant]_vars

\* The pieces of a color on both boards and in both boards' holdings.
Material(bs, color) ==
    LET onBoard(n) == Cardinality(Occupied(bs[n].board.pos, color))
        held(n)    == bs[n].holdings[color][Pawn] + bs[n].holdings[color][Knight]
                      + bs[n].holdings[color][Bishop] + bs[n].holdings[color][Rook]
                      + bs[n].holdings[color][Queen]
    IN  onBoard("A") + onBoard("B") + held("A") + held("B")

\* C23: a successful make_move leaves, for each color, the number of pieces
\* of that color on the two boards and in the two boards' holdings as it
\* was: a captured piece, one captured en passant included, goes to the
\* other board's holdings, and a drop moves one piece from the holdings to
\* the board.
C23_MaterialConserved ==
    [][ Moved => \A color \in Colors :
                    Material(boards', color) = Material(boards, color) ]_vars

=============================================================================
